---- MODULE Spec2Model ----
(***************************************************************************)
(* Model of the resumable chunked upload server (backend/server.js with    *)
(* backend/database.js).  Every request handler is an async function: the  *)
(* code between two awaits runs atomically on the Node event loop, and     *)
(* every await is a point where other handlers, the cleanup timer or a     *)
(* server crash may interleave.  Each action below is one such atomic      *)
(* segment and is named after the store or file operation it performs.     *)
(***************************************************************************)
EXTENDS Integers, Sequences, FiniteSets, TLC

\* ------------------------------------------------------------------------
\* Bounds and constants
\* ------------------------------------------------------------------------

\* server.js:16 sets CHUNK_SIZE = 5 * 1024 * 1024; the model scales the byte
\* unit so that a chunk is two bytes long.
CHUNK_SIZE == 2

\* Largest chunkIndex a client sends (indices beyond the session's last chunk
\* are out of range for every session of the model).
MaxChunkIndex == 2

\* Largest fileSize a client declares.
MaxFileSize == 3

\* A behaviour of the model starts at most MaxRequests requests, crashes the
\* server at most MaxCrashes times and runs the cleanup at most MaxCleanups times.
MaxRequests == 3
MaxCrashes == 1
MaxCleanups == 1

\* Number of chunk requests of a behaviour that starts from a created session.
MaxChunkRequests == 4

\* Number of init requests of a behaviour in which clients only initialize.
MaxInitRequests == 4

\* App.jsx:5-6.
MAX_CONCURRENT == 3
MAX_RETRIES == 3

\* Size of the file selected in the browser (four chunks), and how many times
\* the user presses the upload button.
ClientFileSize == 7
MaxClicks == 2

\* How many attempts to send a chunk fail in one behaviour of the browser.
MaxFailures == 4

UploadIds == {"u1"}

\* Slots for the requests in flight; a new request takes the lowest free one.
Requests == {1, 2}

\* fileSize values of init requests: 0 stands for a missing/zero field,
\* -1 for a negative size, the others are real sizes.
FileSizes == {-1, 0, MaxFileSize}

ChunkIndexes == 0..MaxChunkIndex

\* Lengths of the payloads a client sends (the server does not know them in
\* advance).  With fileSize 3 chunk 0 is CHUNK_SIZE bytes long and chunk 1 is
\* one byte long, so each length is right for one index and wrong for the other.
PayloadLengths == {CHUNK_SIZE - 1, CHUNK_SIZE}

NULL == "null"
NoHash == <<>>

VARIABLES
  uploads,      \* collection 'uploads': id -> document (unique index on id)
  chunks,       \* collection 'chunks': <<upload_id, chunk_index>> -> status
  files,        \* UPLOAD_DIR: file name (an upload id) -> byte sequence
  temp,         \* TEMP_DIR: the requests whose multer scratch file exists
  pc,           \* request slot -> position of its handler
  local,        \* request slot -> the handler's local variables
  resp,         \* the response sent by the last step (NoResp when it sent none)
  jpc,          \* position of cleanupOldUploads
  oldUploads,   \* cleanupOldUploads: ids found by the first query, not yet unlinked
  used,         \* how many requests, crashes and cleanup runs the behaviour has had
  client        \* the browser: React state, uploadStateRef, localStorage, requests and timers

vars == <<uploads, chunks, files, temp, pc, local, resp, jpc, oldUploads, used, client>>

\* The variables of the server.
serverVars == <<uploads, chunks, files, temp, pc, local, resp, jpc, oldUploads, used>>

\* ------------------------------------------------------------------------
\* Pure helpers
\* ------------------------------------------------------------------------

\* Math.ceil(fileSize / CHUNK_SIZE), also for negative sizes.
TotalChunks(fileSize) == -((-fileSize) \div CHUNK_SIZE)

Max(a, b) == IF a >= b THEN a ELSE b

\* The bytes a client sends for chunk idx with a payload of len bytes: the
\* byte of file position q (0-based) is q + 1, so 0 only ever marks a hole.
Payload(idx, len) == [k \in 1..len |-> idx * CHUNK_SIZE + k]

\* The whole file the client is uploading.
Content(size) == [k \in 1..Max(size, 0) |-> k]

\* fileHandle.write(chunkData, 0, chunkData.length, offset) on content f.
WriteAt(f, data, offset) ==
  IF Len(data) = 0 THEN f
  ELSE [k \in 1..Max(Len(f), offset + Len(data)) |->
          IF k > offset /\ k <= offset + Len(data) THEN data[k - offset]
          ELSE IF k <= Len(f) THEN f[k]
          ELSE 0]

\* calculateFileHash: SHA-256 is modelled as an injective tagging of content.
calculateFileHash(f) == <<"sha256", f>>

\* find({upload_id: u}): the indices of the chunk documents of upload u.
ChunkDocs(cs, u) == {i \in ChunkIndexes : <<u, i>> \in DOMAIN cs}

\* chunks.filter(c => c.status === 'RECEIVED').map(c => c.chunk_index)
ReceivedIndexes(cs, u) == {i \in ChunkDocs(cs, u) : cs[<<u, i>>] = "RECEIVED"}

\* A collection or directory with one more / one fewer entry.
Put(f, k, v) == [x \in DOMAIN f \cup {k} |-> IF x = k THEN v ELSE f[x]]
Drop(f, ks) == [x \in DOMAIN f \ ks |-> f[x]]

NoLocal ==
  [kind |-> "none", uploadId |-> NULL, fileSize |-> 0, chunkIdx |-> 0,
   len |-> 0, existing |-> NULL, isComplete |-> FALSE, receivedCount |-> 0,
   totalCount |-> 0, hash |-> NoHash, fileHandle |-> "none", wrote |-> FALSE,
   zipContents |-> "none"]

NoResp ==
  [route |-> "none", uploadId |-> NULL, code |-> 0, status |-> NULL, uploadedChunks |-> {}, message |-> NULL,
   isComplete |-> FALSE, receivedChunks |-> 0, totalChunks |-> 0]

Reply(code, message) == [NoResp EXCEPT !.code = code, !.message = message]

\* The chunk indices of the file selected in the browser.
ClientIndexes == 0..(TotalChunks(ClientFileSize) - 1)

\* App.jsx:56-88, handleFileSelect with nothing saved in localStorage: every
\* chunk is 'pending', uploadId is empty, nothing is uploading.
\*   chunks        React state `chunks`: index -> status
\*   closure       the value of `chunks` captured by the functions of the render
\*                 in which startUpload was called, per call of startUpload
\*   activeUploads, queue   uploadStateRef.current
\*   saved         localStorage has the item 'currentUpload'
\*   inits         the calls of startUpload that await the init response
\*   flights       the calls of uploadChunk that await their fetch ("sending")
\*                 or the timer of their retry ("waiting")
\*   clicks, failures   how often the button was pressed and an attempt failed
SelectedFile ==
  [uploading |-> FALSE, saved |-> FALSE,
   chunks |-> [i \in ClientIndexes |-> "pending"],
   closure |-> <<>>,
   activeUploads |-> 0, queue |-> <<>>,
   inits |-> {}, flights |-> {}, clicks |-> 0, failures |-> 0]

\* ------------------------------------------------------------------------
\* Initial state: empty store, empty directories, no request in flight
\* ------------------------------------------------------------------------
Init ==
  /\ uploads = <<>>
  /\ chunks = <<>>
  /\ files = <<>>
  /\ temp = {}
  /\ pc = [p \in Requests |-> "idle"]
  /\ local = [p \in Requests |-> NoLocal]
  /\ resp = NoResp
  /\ jpc = "idle"
  /\ oldUploads = {}
  /\ used = [requests |-> 0, crashes |-> 0, cleanups |-> 0]
  /\ client = SelectedFile

FreeSlot(p) == pc[p] = "idle" /\ \A q \in Requests : pc[q] = "idle" => p <= q

\* Leaves the handler of slot p: response r is sent.
Respond(p, r) ==
  /\ pc' = [pc EXCEPT ![p] = "idle"]
  /\ local' = [local EXCEPT ![p] = NoLocal]
  /\ resp' = [r EXCEPT !.route = local[p].kind, !.uploadId = local[p].uploadId]
  /\ UNCHANGED client

\* The step sends no response.  (No step of the server changes the state of
\* the browser.)
Silent == resp' = NoResp /\ UNCHANGED client

Goto(p, label) == pc' = [pc EXCEPT ![p] = label]

\* ------------------------------------------------------------------------
\* POST /api/upload/init
\* ------------------------------------------------------------------------

\* server.js:32-39: field validation (fieldsOk: filename and uploadId are
\* present; a fileSize of 0 is falsy), then the first query is issued.
InitStart(p, u, fieldsOk, fileSize) ==
  /\ FreeSlot(p)
  /\ IF ~fieldsOk \/ fileSize = 0
     THEN /\ resp' = [Reply(400, "Missing required fields") EXCEPT !.route = "init"]
          /\ UNCHANGED client
          /\ UNCHANGED <<pc, local>>
     ELSE /\ Goto(p, "i_findUpload")
          /\ local' = [local EXCEPT ![p] =
                         [NoLocal EXCEPT !.kind = "init", !.uploadId = u,
                                         !.fileSize = fileSize]]
          /\ Silent
  /\ UNCHANGED <<uploads, chunks, files, temp, jpc, oldUploads>>
  /\ used' = [used EXCEPT !.requests = @ + 1]

\* server.js:41-43: existing = findOne({id}).
InitFindUpload(p) ==
  /\ pc[p] = "i_findUpload"
  /\ LET u == local[p].uploadId IN
     IF u \in DOMAIN uploads
     THEN /\ Goto(p, "i_findChunks")
          /\ local' = [local EXCEPT ![p].existing = uploads[u].status]
     ELSE /\ Goto(p, "i_insertUpload")
          /\ UNCHANGED local
  /\ UNCHANGED <<uploads, chunks, files, temp, jpc, oldUploads, used>>
  /\ Silent

\* InitFindChunks without the filter on status: every chunk document of the
\* upload is reported as uploaded.
InitFindChunks_NoFilter(p) ==
  /\ pc[p] = "i_findChunks"
  /\ Respond(p, [NoResp EXCEPT !.code = 200,
                               !.uploadedChunks = ChunkDocs(chunks, local[p].uploadId),
                               !.status = local[p].existing])
  /\ UNCHANGED <<uploads, chunks, files, temp, jpc, oldUploads, used>>

\* server.js:44-56: the chunk documents are read and the progress returned.
InitFindChunks(p) ==
  /\ pc[p] = "i_findChunks"
  /\ Respond(p, [NoResp EXCEPT !.code = 200,
                               !.uploadedChunks = ReceivedIndexes(chunks, local[p].uploadId),
                               !.status = local[p].existing])
  /\ UNCHANGED <<uploads, chunks, files, temp, jpc, oldUploads, used>>

\* server.js:59-68: insertOne; the unique index on id (database.js:19)
\* rejects a second document, which the handler answers with 500.
InitInsertUpload(p) ==
  /\ pc[p] = "i_insertUpload"
  /\ LET u == local[p].uploadId IN
     IF u \in DOMAIN uploads
     THEN /\ Respond(p, Reply(500, "Failed to initialize upload"))
          /\ UNCHANGED <<uploads>>
     ELSE /\ uploads' = Put(uploads, u,
                           [total_size |-> local[p].fileSize,
                            total_chunks |-> TotalChunks(local[p].fileSize),
                            status |-> "UPLOADING",
                            final_hash |-> NoHash,
                            expired |-> FALSE])
          /\ IF TotalChunks(local[p].fileSize) > 0
             THEN Goto(p, "i_insertChunks") /\ UNCHANGED local /\ Silent
             ELSE Respond(p, [NoResp EXCEPT !.code = 200, !.status = "UPLOADING"])
  /\ UNCHANGED <<chunks, files, temp, jpc, oldUploads, used>>

\* InitInsertChunks as a replacement of the chunk documents of the upload:
\* every document 0..n-1 is written PENDING, whatever was stored.
InitInsertChunks_Overwrite(p) ==
  /\ pc[p] = "i_insertChunks"
  /\ LET u == local[p].uploadId
         docs == 0..(TotalChunks(local[p].fileSize) - 1)
     IN
     /\ chunks' = [k \in DOMAIN chunks \cup {<<u, i>> : i \in docs} |->
                     IF k \in {<<u, i>> : i \in docs} THEN "PENDING" ELSE chunks[k]]
     /\ Respond(p, [NoResp EXCEPT !.code = 200, !.status = "UPLOADING"])
  /\ UNCHANGED <<uploads, files, temp, jpc, oldUploads, used>>

\* server.js:70-88: insertMany of the PENDING documents (ordered: it stops at
\* the first duplicate key of the unique index of database.js:23).
InitInsertChunks(p) ==
  /\ pc[p] = "i_insertChunks"
  /\ LET u == local[p].uploadId
         n == TotalChunks(local[p].fileSize)
         docs == 0..(n - 1)
         dups == {i \in docs : <<u, i>> \in DOMAIN chunks}
         firstDup == CHOOSE i \in dups : \A j \in dups : i <= j
         inserted == IF dups = {} THEN docs ELSE {i \in docs : i < firstDup}
     IN
     /\ chunks' = [k \in DOMAIN chunks \cup {<<u, i>> : i \in inserted} |->
                     IF k \in DOMAIN chunks THEN chunks[k] ELSE "PENDING"]
     /\ IF dups = {}
        THEN Respond(p, [NoResp EXCEPT !.code = 200, !.status = "UPLOADING"])
        ELSE Respond(p, Reply(500, "Failed to initialize upload"))
  /\ UNCHANGED <<uploads, files, temp, jpc, oldUploads, used>>

\* ------------------------------------------------------------------------
\* POST /api/upload/chunk
\* ------------------------------------------------------------------------

\* An early return or the catch block of the chunk handler: the scratch
\* file is unlinked and the response sent.  fs.unlink of a scratch file that
\* is already gone throws, which the handler's catch answers with 500.
ChunkReturn(p, r) ==
  /\ temp' = temp \ {p}
  /\ IF p \in temp THEN Respond(p, r)
     ELSE Respond(p, Reply(500, "Failed to upload chunk"))

\* ChunkCatch without its unlink: the catch block answers 500 and leaves the
\* scratch file behind.
ChunkCatch_KeepsScratch(p) ==
  /\ temp' = temp
  /\ Respond(p, Reply(500, "Failed to upload chunk"))

\* server.js:169-177: the catch block.
ChunkCatch(p) ==
  /\ temp' = temp \ {p}
  /\ Respond(p, Reply(500, "Failed to upload chunk"))

\* server.js:95-110: multer has spooled the part to a scratch file; the body
\* fields are validated and the session query is issued.
ChunkStart(p, u, idx, len, fieldsOk) ==
  /\ FreeSlot(p)
  /\ IF ~fieldsOk
     THEN /\ resp' = [Reply(400, "Missing required fields") EXCEPT !.route = "chunk"]
          /\ UNCHANGED client
          /\ UNCHANGED <<pc, local, temp>>
     ELSE /\ Goto(p, "c_findUpload")
          /\ local' = [local EXCEPT ![p] =
                         [NoLocal EXCEPT !.kind = "chunk", !.uploadId = u,
                                         !.chunkIdx = idx, !.len = len]]
          /\ Silent
          /\ temp' = temp \cup {p}
  /\ UNCHANGED <<uploads, chunks, files, jpc, oldUploads>>
  /\ used' = [used EXCEPT !.requests = @ + 1]

\* ChunkFindUpload without the existence test: a request for an unknown id
\* goes on to the chunk lookup and the write.
ChunkFindUpload_NoCheck(p) ==
  /\ pc[p] = "c_findUpload"
  /\ Goto(p, "c_findChunk")
  /\ UNCHANGED <<local, temp>> /\ Silent
  /\ UNCHANGED <<uploads, chunks, files, jpc, oldUploads, used>>

\* server.js:110-115: uploadDoc = findOne({id}); 404 when absent.
ChunkFindUpload(p) ==
  /\ pc[p] = "c_findUpload"
  /\ IF local[p].uploadId \in DOMAIN uploads
     THEN /\ Goto(p, "c_findChunk")
          /\ UNCHANGED <<local, temp>> /\ Silent
     ELSE ChunkReturn(p, Reply(404, "Upload not found"))
  /\ UNCHANGED <<uploads, chunks, files, jpc, oldUploads, used>>

\* ChunkFindChunk without the early return for a RECEIVED chunk: every
\* request goes on to read its scratch file and to write.
ChunkFindChunk_NoFastPath(p) ==
  /\ pc[p] = "c_findChunk"
  /\ Goto(p, "c_readFile")
  /\ UNCHANGED <<local, temp>> /\ Silent
  /\ UNCHANGED <<uploads, chunks, files, jpc, oldUploads, used>>

\* server.js:117-125: existingChunk = findOne({upload_id, chunk_index});
\* a RECEIVED chunk is answered at once.
ChunkFindChunk(p) ==
  /\ pc[p] = "c_findChunk"
  /\ LET k == <<local[p].uploadId, local[p].chunkIdx>> IN
     IF k \in DOMAIN chunks /\ chunks[k] = "RECEIVED"
     THEN ChunkReturn(p, [Reply(200, "Chunk already uploaded") EXCEPT !.isComplete = FALSE])
     ELSE /\ Goto(p, "c_readFile")
          /\ UNCHANGED <<local, temp>> /\ Silent
  /\ UNCHANGED <<uploads, chunks, files, jpc, oldUploads, used>>

\* server.js:130: chunkData = readFile(tempPath).
ChunkReadFile(p) ==
  /\ pc[p] = "c_readFile"
  /\ IF p \in temp
     THEN /\ Goto(p, "c_open")
          /\ UNCHANGED <<local, temp>> /\ Silent
     ELSE ChunkCatch(p)
  /\ UNCHANGED <<uploads, chunks, files, jpc, oldUploads, used>>

\* server.js:134: fs.open(targetPath, 'r+') succeeds iff the file exists.
ChunkOpen(p) ==
  /\ pc[p] = "c_open"
  /\ IF local[p].uploadId \in DOMAIN files
     THEN /\ Goto(p, "c_write")
          /\ local' = [local EXCEPT ![p].fileHandle = "open"]
     ELSE /\ Goto(p, "c_openW")
          /\ UNCHANGED local
  /\ UNCHANGED <<uploads, chunks, files, temp, jpc, oldUploads, used>>
  /\ Silent

\* server.js:135: the fallback fs.open(targetPath, 'w') creates the file, or
\* truncates it to length 0 when it has been created in the meantime.
ChunkOpenW(p) ==
  /\ pc[p] = "c_openW"
  /\ files' = Put(files, local[p].uploadId, <<>>)
  /\ Goto(p, "c_write")
  /\ local' = [local EXCEPT ![p].fileHandle = "open"]
  /\ UNCHANGED <<uploads, chunks, temp, jpc, oldUploads, used>>
  /\ Silent

\* server.js:138-141: the positional write through the handle, then close.
\* A handle whose file has been unlinked writes to the unlinked inode.
ChunkWrite(p) ==
  /\ pc[p] = "c_write"
  /\ LET u == local[p].uploadId
         idx == local[p].chunkIdx
     IN
     /\ files' = IF local[p].fileHandle = "open"
                 THEN [files EXCEPT ![u] =
                         WriteAt(files[u], Payload(idx, local[p].len), idx * CHUNK_SIZE)]
                 ELSE files
  /\ Goto(p, "c_unlink")
  /\ local' = [local EXCEPT ![p].fileHandle = "none", ![p].wrote = TRUE]
  /\ UNCHANGED <<uploads, chunks, temp, jpc, oldUploads, used>>
  /\ Silent

\* ChunkWriteError with the rejection swallowed: the handler carries on to
\* the unlink and the RECEIVED update although nothing was written.
ChunkWriteError_Swallowed(p) ==
  /\ pc[p] = "c_write"
  /\ Goto(p, "c_unlink")
  /\ local' = [local EXCEPT ![p].fileHandle = "none"]
  /\ UNCHANGED <<uploads, chunks, files, temp, jpc, oldUploads, used>>
  /\ Silent

\* ChunkWriteError that records the chunk although its write failed: the
\* catch block answers 500 after the chunk document has been set RECEIVED.
ChunkWriteError_Marked(p) ==
  /\ pc[p] = "c_write"
  /\ ChunkCatch(p)
  /\ LET k == <<local[p].uploadId, local[p].chunkIdx>> IN
     chunks' = IF k \in DOMAIN chunks THEN [chunks EXCEPT ![k] = "RECEIVED"]
               ELSE chunks
  /\ UNCHANGED <<uploads, files, jpc, oldUploads, used>>

\* server.js:138-141, 169-177: the write rejects (disk failure); the handle is
\* closed by the finally block and the catch block answers 500.
ChunkWriteError(p) ==
  /\ pc[p] = "c_write"
  /\ ChunkCatch(p)
  /\ UNCHANGED <<uploads, chunks, files, jpc, oldUploads, used>>

\* server.js:143: fs.unlink(tempPath).
ChunkUnlink(p) ==
  /\ pc[p] = "c_unlink"
  /\ IF p \in temp
     THEN /\ temp' = temp \ {p}
          /\ Goto(p, "c_mark")
          /\ UNCHANGED local /\ Silent
     ELSE ChunkCatch(p)
  /\ UNCHANGED <<uploads, chunks, files, jpc, oldUploads, used>>

\* server.js:145-148: updateOne({upload_id, chunk_index}, {$set: {status:
\* 'RECEIVED'}}): no upsert, so nothing happens without a document.
ChunkMark(p) ==
  /\ pc[p] = "c_mark"
  /\ LET k == <<local[p].uploadId, local[p].chunkIdx>> IN
     chunks' = IF k \in DOMAIN chunks THEN [chunks EXCEPT ![k] = "RECEIVED"]
               ELSE chunks
  /\ Goto(p, "c_count")
  /\ UNCHANGED <<uploads, files, temp, local, jpc, oldUploads, used>>
  /\ Silent

\* server.js:163-168: the success response of the chunk handler.
ChunkRespond(p, l) ==
  Respond(p, [NoResp EXCEPT !.code = 200, !.isComplete = l.isComplete,
                            !.receivedChunks = l.receivedCount,
                            !.totalChunks = l.totalCount])

\* server.js:150-161: allChunks = find({upload_id}); the counts are compared
\* and finalizeUpload is entered when they agree.
ChunkCount(p) ==
  /\ pc[p] = "c_count"
  /\ LET u == local[p].uploadId
         totalCount == Cardinality(ChunkDocs(chunks, u))
         receivedCount == Cardinality(ReceivedIndexes(chunks, u))
         l == [local[p] EXCEPT !.totalCount = totalCount,
                               !.receivedCount = receivedCount,
                               !.isComplete = (receivedCount = totalCount)]
     IN
     IF l.isComplete
     THEN /\ Goto(p, "f_findUpload")
          /\ local' = [local EXCEPT ![p] = l]
          /\ Silent
     ELSE ChunkRespond(p, l)
  /\ UNCHANGED <<uploads, chunks, files, temp, jpc, oldUploads, used>>

\* ------------------------------------------------------------------------
\* finalizeUpload (called inline by the chunk handler)
\* ------------------------------------------------------------------------

\* server.js:184-188: uploadDoc = findOne({id}); return unless UPLOADING.
FinalizeFindUpload(p) ==
  /\ pc[p] = "f_findUpload"
  /\ LET u == local[p].uploadId IN
     IF u \in DOMAIN uploads /\ uploads[u].status = "UPLOADING"
     THEN /\ Goto(p, "f_processing")
          /\ UNCHANGED local /\ Silent
     ELSE ChunkRespond(p, local[p])
  /\ UNCHANGED <<uploads, chunks, files, temp, jpc, oldUploads, used>>

\* updateOne({id}, {$set: patch}) on the uploads collection.
UpdateUpload(ups, u, st, h) ==
  IF u \in DOMAIN ups
  THEN [ups EXCEPT ![u].status = st,
                   ![u].final_hash = IF h = NoHash THEN @ ELSE h]
  ELSE ups

\* server.js:190-193: updateOne({id}, {$set: {status: 'PROCESSING'}}).
FinalizeProcessing(p) ==
  /\ pc[p] = "f_processing"
  /\ uploads' = UpdateUpload(uploads, local[p].uploadId, "PROCESSING", NoHash)
  /\ Goto(p, "f_hash")
  /\ UNCHANGED <<chunks, files, temp, local, jpc, oldUploads, used>>
  /\ Silent

\* server.js:195: hash = calculateFileHash(filePath); the read stream errors
\* when the file does not exist, which the catch of finalizeUpload handles.
FinalizeHash(p) ==
  /\ pc[p] = "f_hash"
  /\ LET u == local[p].uploadId IN
     IF u \in DOMAIN files
     THEN /\ local' = [local EXCEPT ![p].hash = calculateFileHash(files[u])]
          /\ Goto(p, "f_peek")
     ELSE /\ Goto(p, "f_failed")
          /\ UNCHANGED local
  /\ UNCHANGED <<uploads, chunks, files, temp, jpc, oldUploads, used>>
  /\ Silent

\* server.js:195, 213: the read stream errors while the file is read.
FinalizeHashError(p) ==
  /\ pc[p] = "f_hash"
  /\ Goto(p, "f_failed")
  /\ UNCHANGED <<uploads, chunks, files, temp, local, jpc, oldUploads, used>>
  /\ Silent

\* FinalizePeek with the rejection of peekZipContents not caught: it reaches
\* the catch block of finalizeUpload.
FinalizePeek_Rethrown(p, peekOk) ==
  /\ pc[p] = "f_peek"
  /\ Goto(p, IF peekOk THEN "f_complete" ELSE "f_failed")
  /\ local' = [local EXCEPT ![p].zipContents = IF peekOk THEN "listed" ELSE "none"]
  /\ UNCHANGED <<uploads, chunks, files, temp, jpc, oldUploads, used>>
  /\ Silent

\* server.js:197-202: zipContents = [] is replaced by the listing of
\* peekZipContents; a rejection is caught and logged and leaves it empty.
FinalizePeek(p, peekOk) ==
  /\ pc[p] = "f_peek"
  /\ Goto(p, "f_complete")
  /\ local' = [local EXCEPT ![p].zipContents = IF peekOk THEN "listed" ELSE "none"]
  /\ UNCHANGED <<uploads, chunks, files, temp, jpc, oldUploads, used>>
  /\ Silent

\* server.js:204-212: updateOne({id}, {$set: {status: 'COMPLETED', final_hash}}).
FinalizeComplete(p) ==
  /\ pc[p] = "f_complete"
  /\ LET u == local[p].uploadId IN
     /\ uploads' = UpdateUpload(uploads, u, "COMPLETED", local[p].hash)
  /\ ChunkRespond(p, local[p])
  /\ UNCHANGED <<chunks, files, temp, jpc, oldUploads, used>>

\* server.js:213-220: the catch of finalizeUpload:
\* updateOne({id}, {$set: {status: 'FAILED'}}).
FinalizeFailed(p) ==
  /\ pc[p] = "f_failed"
  /\ uploads' = UpdateUpload(uploads, local[p].uploadId, "FAILED", NoHash)
  /\ ChunkRespond(p, local[p])
  /\ UNCHANGED <<chunks, files, temp, jpc, oldUploads, used>>

\* ------------------------------------------------------------------------
\* GET /api/upload/:uploadId/status
\* ------------------------------------------------------------------------

\* server.js:260-265: the id is taken from the path and the session query is
\* issued; the request has no body and no scratch file.
StatusStart(p, u) ==
  /\ FreeSlot(p)
  /\ Goto(p, "s_findUpload")
  /\ local' = [local EXCEPT ![p] = [NoLocal EXCEPT !.kind = "status", !.uploadId = u]]
  /\ used' = [used EXCEPT !.requests = @ + 1]
  /\ UNCHANGED <<uploads, chunks, files, temp, jpc, oldUploads>>
  /\ Silent

\* server.js:265-269: uploadDoc = findOne({id}); 404 when absent.
StatusFindUpload(p) ==
  /\ pc[p] = "s_findUpload"
  /\ LET u == local[p].uploadId IN
     IF u \in DOMAIN uploads
     THEN /\ Goto(p, "s_findChunks")
          /\ local' = [local EXCEPT ![p].existing = uploads[u].status]
          /\ Silent
     ELSE Respond(p, Reply(404, "Upload not found"))
  /\ UNCHANGED <<uploads, chunks, files, temp, jpc, oldUploads, used>>

\* server.js:271-278: chunks = find({upload_id}); the session document read
\* before and the chunk documents are returned.
StatusFindChunks(p) ==
  /\ pc[p] = "s_findChunks"
  /\ LET u == local[p].uploadId IN
     Respond(p, [NoResp EXCEPT !.code = 200,
                               !.status = local[p].existing,
                               !.uploadedChunks = ReceivedIndexes(chunks, u),
                               !.totalChunks = Cardinality(ChunkDocs(chunks, u))])
  /\ UNCHANGED <<uploads, chunks, files, temp, jpc, oldUploads, used>>

\* ------------------------------------------------------------------------
\* cleanupOldUploads (setInterval, server.js:322) and the passing of time
\* ------------------------------------------------------------------------

\* The filter without its status clause: every session older than the cutoff.
Expired_AnyStatus(ups) == {u \in DOMAIN ups : ups[u].expired}

\* The filter {status: {$in: ['UPLOADING', 'FAILED']}, created_at: {$lt: cutoffTime}}.
Expired(ups) ==
  {u \in DOMAIN ups : ups[u].status \in {"UPLOADING", "FAILED"} /\ ups[u].expired}

\* Time passes: created_at of session u is now older than the 24 h cutoff.
\* A cleanup run computes its cutoffTime once (server.js:288) and uses it in
\* both queries, so no session crosses the cutoff while a run is under way.
Expire(u) ==
  /\ jpc = "idle"
  /\ u \in DOMAIN uploads
  /\ ~uploads[u].expired
  /\ uploads' = [uploads EXCEPT ![u].expired = TRUE]
  /\ UNCHANGED <<chunks, files, temp, pc, local, jpc, oldUploads, used>>
  /\ Silent

\* server.js:290-295: oldUploads = find(filter).toArray().
CleanupFind ==
  /\ jpc = "idle"
  /\ used' = [used EXCEPT !.cleanups = @ + 1]
  /\ oldUploads' = Expired(uploads)
  /\ jpc' = IF Expired(uploads) = {} THEN "j_delete" ELSE "j_unlink"
  /\ UNCHANGED <<uploads, chunks, files, temp, pc, local>>
  /\ Silent

\* server.js:297-302: one iteration of the loop: fs.unlink of the target file,
\* errors ignored.  Handles that are open on the file keep the unlinked inode.
CleanupUnlink(u) ==
  /\ jpc = "j_unlink"
  /\ u \in oldUploads
  /\ files' = Drop(files, {u})
  /\ local' = [p \in Requests |->
                 IF local[p].uploadId = u /\ local[p].fileHandle = "open" /\ u \in DOMAIN files
                 THEN [local[p] EXCEPT !.fileHandle = "unlinked"]
                 ELSE local[p]]
  /\ oldUploads' = oldUploads \ {u}
  /\ jpc' = IF oldUploads = {u} THEN "j_delete" ELSE "j_unlink"
  /\ UNCHANGED <<uploads, chunks, temp, pc, used>>
  /\ Silent

\* server.js:304-307: deleteMany(filter) on the uploads collection only.
CleanupDelete ==
  /\ jpc = "j_delete"
  /\ uploads' = Drop(uploads, Expired(uploads))
  /\ jpc' = "j_temp"
  /\ UNCHANGED <<chunks, files, temp, pc, local, oldUploads, used>>
  /\ Silent

\* server.js:309-316: the scratch files older than one hour (the set stale)
\* are unlinked.
CleanupTemp(stale) ==
  /\ jpc = "j_temp"
  /\ temp' = temp \ stale
  /\ jpc' = "idle"
  /\ UNCHANGED <<uploads, chunks, files, pc, local, oldUploads, used>>
  /\ Silent

\* The server process dies and is restarted: every handler in flight and the
\* cleanup run are lost; the store and the upload directory survive.  The
\* scratch files of the lost requests stay behind under names no later
\* request uses, so they leave the tracked set.
Crash ==
  /\ \/ \E p \in Requests : pc[p] # "idle"
     \/ jpc # "idle"
  /\ pc' = [p \in Requests |-> "idle"]
  /\ local' = [p \in Requests |-> NoLocal]
  /\ jpc' = "idle"
  /\ oldUploads' = {}
  /\ temp' = {}
  /\ used' = [used EXCEPT !.crashes = @ + 1]
  /\ UNCHANGED <<uploads, chunks, files>>
  /\ Silent

\* ------------------------------------------------------------------------
\* Specifications
\* ------------------------------------------------------------------------

\* Everything the server can do, with any request a client can send.
Next ==
  \/ /\ used.requests < MaxRequests
     /\ \E p \in Requests, u \in UploadIds, ok \in BOOLEAN, s \in FileSizes :
          InitStart(p, u, ok, s)
  \/ \E p \in Requests : InitFindUpload(p)
  \/ \E p \in Requests : InitFindChunks(p)
  \/ \E p \in Requests : InitInsertUpload(p)
  \/ \E p \in Requests : InitInsertChunks(p)
  \/ /\ used.requests < MaxRequests
     /\ \E p \in Requests, u \in UploadIds, idx \in ChunkIndexes,
           len \in PayloadLengths, ok \in BOOLEAN :
          ChunkStart(p, u, idx, len, ok)
  \/ \E p \in Requests : ChunkFindUpload(p)
  \/ \E p \in Requests : ChunkFindChunk(p)
  \/ \E p \in Requests : ChunkReadFile(p)
  \/ \E p \in Requests : ChunkOpen(p)
  \/ \E p \in Requests : ChunkOpenW(p)
  \/ \E p \in Requests : ChunkWrite(p)
  \/ \E p \in Requests : ChunkWriteError(p)
  \/ \E p \in Requests : ChunkUnlink(p)
  \/ \E p \in Requests : ChunkMark(p)
  \/ \E p \in Requests : ChunkCount(p)
  \/ \E p \in Requests : FinalizeFindUpload(p)
  \/ \E p \in Requests : FinalizeProcessing(p)
  \/ \E p \in Requests : FinalizeHash(p)
  \/ \E p \in Requests : FinalizeHashError(p)
  \/ \E p \in Requests, peekOk \in BOOLEAN : FinalizePeek(p, peekOk)
  \/ \E p \in Requests : FinalizeComplete(p)
  \/ \E p \in Requests : FinalizeFailed(p)
  \/ /\ used.requests < MaxRequests
     /\ \E p \in Requests, u \in UploadIds : StatusStart(p, u)
  \/ \E p \in Requests : StatusFindUpload(p)
  \/ \E p \in Requests : StatusFindChunks(p)
  \/ \E u \in UploadIds : Expire(u)
  \/ used.cleanups < MaxCleanups /\ CleanupFind
  \/ \E u \in UploadIds : CleanupUnlink(u)
  \/ CleanupDelete
  \/ \E stale \in SUBSET Requests : CleanupTemp(stale)
  \/ used.crashes < MaxCrashes /\ Crash

Spec == Init /\ [][Next]_vars

\* The state right after a successful init of a file of MaxFileSize bytes: the
\* session is UPLOADING, its chunk documents are PENDING, nothing is written.
InitUpload ==
  /\ uploads = [u \in UploadIds |->
                  [total_size |-> MaxFileSize, total_chunks |-> TotalChunks(MaxFileSize),
                   status |-> "UPLOADING", final_hash |-> NoHash, expired |-> FALSE]]
  /\ chunks = [k \in UploadIds \X (0..(TotalChunks(MaxFileSize) - 1)) |-> "PENDING"]
  /\ files = <<>>
  /\ temp = {}
  /\ pc = [p \in Requests |-> "idle"]
  /\ local = [p \in Requests |-> NoLocal]
  /\ resp = NoResp
  /\ jpc = "idle"
  /\ oldUploads = {}
  /\ used = [requests |-> 0, crashes |-> 0, cleanups |-> 0]
  /\ client = SelectedFile

\* The length of chunk idx of a file of size bytes (the last one may be short).
ChunkLength(size, idx) ==
  IF (idx + 1) * CHUNK_SIZE <= size THEN CHUNK_SIZE ELSE size - idx * CHUNK_SIZE

\* A well-behaved client on a healthy server: every chunk request carries an
\* index of the session and the payload of exactly that chunk, in any order,
\* with duplicates and with requests overlapping in time; no disk failure, no
\* crash, no cleanup run.
NextUpload ==
  \/ /\ used.requests < MaxChunkRequests
     /\ \E p \in Requests, u \in DOMAIN uploads :
          \E idx \in 0..(uploads[u].total_chunks - 1) :
            ChunkStart(p, u, idx, ChunkLength(uploads[u].total_size, idx), TRUE)
  \/ \E p \in Requests : ChunkFindUpload(p)
  \/ \E p \in Requests : ChunkFindChunk(p)
  \/ \E p \in Requests : ChunkReadFile(p)
  \/ \E p \in Requests : ChunkOpen(p)
  \/ \E p \in Requests : ChunkOpenW(p)
  \/ \E p \in Requests : ChunkWrite(p)
  \/ \E p \in Requests : ChunkUnlink(p)
  \/ \E p \in Requests : ChunkMark(p)
  \/ \E p \in Requests : ChunkCount(p)
  \/ \E p \in Requests : FinalizeFindUpload(p)
  \/ \E p \in Requests : FinalizeProcessing(p)
  \/ \E p \in Requests : FinalizeHash(p)
  \/ \E p \in Requests, peekOk \in BOOLEAN : FinalizePeek(p, peekOk)
  \/ \E p \in Requests : FinalizeComplete(p)

SpecUpload == InitUpload /\ [][NextUpload]_vars

\* ------------------------------------------------------------------------
\* Properties
\* ------------------------------------------------------------------------

\* The requests that have passed the status check of finalizeUpload for
\* session u and so write the session (PROCESSING, then COMPLETED or FAILED).
Finalizers(u) ==
  {p \in Requests : local[p].uploadId = u /\
                    pc[p] \in {"f_processing", "f_hash", "f_peek", "f_complete", "f_failed"}}

\* C1: exactly-once finalization: of the requests that see all chunks of a
\* session RECEIVED, at most one gets past the status check of finalizeUpload
\* and goes on to write PROCESSING, the digest and COMPLETED; the others
\* return without writing the session.
C1_ExactlyOnceFinalization ==
  \A u \in UploadIds : Cardinality(Finalizers(u)) <= 1

StatusEdges ==
  {<<"UPLOADING", "PROCESSING">>, <<"PROCESSING", "COMPLETED">>,
   <<"PROCESSING", "FAILED">>, <<"UPLOADING", "FAILED">>}

\* C2: every change of a session's status follows an edge of the state
\* machine UPLOADING -> PROCESSING -> (COMPLETED | FAILED), UPLOADING -> FAILED;
\* COMPLETED and FAILED are terminal.
C2_StatusTransitions ==
  [][\A u \in DOMAIN uploads \cap DOMAIN uploads' :
       uploads'[u].status # uploads[u].status =>
         <<uploads[u].status, uploads'[u].status>> \in StatusEdges]_vars

\* C3 (I2): a COMPLETED session has its final_hash set, a RECEIVED chunk
\* document for every index 0..total_chunks-1, and a target file of exactly
\* total_size bytes.
C3_CompletedImpliesAssembled ==
  \A u \in DOMAIN uploads :
    uploads[u].status = "COMPLETED" =>
      /\ uploads[u].final_hash # NoHash
      /\ \A i \in 0..(uploads[u].total_chunks - 1) :
           <<u, i>> \in DOMAIN chunks /\ chunks[<<u, i>>] = "RECEIVED"
      /\ u \in DOMAIN files
      /\ Len(files[u]) = uploads[u].total_size

\* C4 (I4): once final_hash of a session is set, no later step writes
\* final_hash again or changes its value while the session exists.
C4_FinalHashWrittenOnce ==
  [][\A u \in DOMAIN uploads \cap DOMAIN uploads' :
       uploads[u].final_hash # NoHash =>
         /\ uploads'[u].final_hash = uploads[u].final_hash
         /\ \A p \in Requests : ~(local[p].uploadId = u /\ FinalizeComplete(p))]_vars

\* C5: final_hash is present exactly when the status is COMPLETED.
C5_FinalHashIffCompleted ==
  \A u \in DOMAIN uploads :
    (uploads[u].final_hash # NoHash) <=> (uploads[u].status = "COMPLETED")

\* C6 (P1): once chunk requests carrying the right payloads have covered
\* every index and have all returned, in whatever order or overlap, the session
\* is COMPLETED, the target file is the in-order concatenation of the payloads
\* and final_hash is the digest of that concatenation.
C6_AssembledInOrder ==
  \A u \in DOMAIN uploads :
    ( /\ \A p \in Requests : pc[p] = "idle"
      /\ \A i \in 0..(uploads[u].total_chunks - 1) :
           <<u, i>> \in DOMAIN chunks /\ chunks[<<u, i>>] = "RECEIVED" )
    => /\ uploads[u].status = "COMPLETED"
       /\ u \in DOMAIN files
       /\ files[u] = Content(uploads[u].total_size)
       /\ uploads[u].final_hash = calculateFileHash(Content(uploads[u].total_size))

\* The byte at 1-based position pos of target file u; 0 where nothing is stored.
ByteAt(fs, u, pos) == IF u \in DOMAIN fs /\ pos <= Len(fs[u]) THEN fs[u][pos] ELSE 0

Positions == 1..((MaxChunkIndex + 1) * CHUNK_SIZE)

\* The positions of chunk idx.
ChunkRange(idx) == (idx * CHUNK_SIZE + 1)..((idx + 1) * CHUNK_SIZE)

\* C7 (P2): a step of a chunk request for (id, index) with payload P changes
\* no byte outside the range of its chunk, and when the last of the requests
\* in flight for (id, index) is answered with success the bytes of that range
\* equal P.
C7_DuplicateChunkWrites ==
  [][\A p \in Requests :
       (local[p].kind = "chunk" /\ pc'[p] # pc[p]) =>
         LET u == local[p].uploadId
             idx == local[p].chunkIdx
             P == Payload(idx, local[p].len)
         IN /\ \A pos \in Positions \ ChunkRange(idx) :
                 ByteAt(files', u, pos) = ByteAt(files, u, pos)
            /\ ( /\ resp'.code = 200
                 /\ \A q \in Requests \ {p} :
                      ~(local[q].kind = "chunk" /\ local[q].uploadId = u
                          /\ local[q].chunkIdx = idx) ) =>
                 \A k \in 1..Len(P) : ByteAt(files', u, idx * CHUNK_SIZE + k) = P[k]]_vars

\* C8 (I6): a chunk document becomes RECEIVED only by a step of a chunk
\* request for that (id, index) whose positional write has completed.
C8_ReceivedAfterWrite ==
  [][\A k \in DOMAIN chunks' :
       (chunks'[k] = "RECEIVED" /\ (k \notin DOMAIN chunks \/ chunks[k] # "RECEIVED")) =>
         \E p \in Requests :
           /\ local[p].kind = "chunk"
           /\ <<local[p].uploadId, local[p].chunkIdx>> = k
           /\ local[p].wrote
           /\ pc'[p] # pc[p]]_vars

\* A request has written its payload and has marked its chunk RECEIVED.
C8_Witness ==
  \E p \in Requests :
    /\ pc[p] = "c_count"
    /\ local[p].wrote
    /\ <<local[p].uploadId, local[p].chunkIdx>> \in DOMAIN chunks
    /\ chunks[<<local[p].uploadId, local[p].chunkIdx>>] = "RECEIVED"

\* C9 (I1): every session has exactly the chunk documents 0..total_chunks-1.
C9_ChunkRecordsMatchSession ==
  \A u \in DOMAIN uploads : ChunkDocs(chunks, u) = 0..(uploads[u].total_chunks - 1)

\* C10: an init that finds a session for its id writes nothing (no session, no
\* chunk document, no file) and answers 200 with the status it read and with
\* uploadedChunks equal to the set of indices whose document is RECEIVED.
C10_InitIdempotent ==
  [][\A p \in Requests :
       LET u == local[p].uploadId
           found == \/ pc[p] = "i_findChunks"
                    \/ pc[p] = "i_findUpload" /\ u \in DOMAIN uploads
       IN (local[p].kind = "init" /\ found /\ pc'[p] # pc[p]
             /\ used'.crashes = used.crashes) =>
            /\ uploads' = uploads /\ chunks' = chunks /\ files' = files
            /\ pc[p] = "i_findUpload" =>
                 pc'[p] = "i_findChunks" /\ local'[p].existing = uploads[u].status
            /\ pc[p] = "i_findChunks" =>
                 /\ pc'[p] = "idle"
                 /\ resp'.route = "init" /\ resp'.uploadId = u /\ resp'.code = 200
                 /\ resp'.status = local[p].existing
                 /\ resp'.uploadedChunks = ReceivedIndexes(chunks', u)]_vars

\* A repeated init has just reported a chunk as uploaded.
C10_Witness ==
  resp.route = "init" /\ resp.code = 200 /\ resp.uploadedChunks # {}

\* ------------------------------------------------------------------------
\* Crash recovery
\* ------------------------------------------------------------------------

\* A well-behaved client against a server that may crash and restart: the
\* chunk requests of NextUpload, the init request of an existing session (the
\* resume handshake), and a crash at any await of any request.
NextRecovery ==
  \/ NextUpload
  \/ /\ used.requests < MaxChunkRequests
     /\ \E p \in Requests, u \in DOMAIN uploads :
          InitStart(p, u, TRUE, uploads[u].total_size)
  \/ \E p \in Requests : InitFindUpload(p)
  \/ \E p \in Requests : InitFindChunks(p)
  \/ used.crashes < MaxCrashes /\ Crash

SpecRecovery == InitUpload /\ [][NextRecovery]_vars

\* No request is in flight.
Quiescent == \A p \in Requests : pc[p] = "idle"

\* Every chunk of session u is recorded RECEIVED: no index is missing.
AllReceived(u) ==
  \A i \in 0..(uploads[u].total_chunks - 1) :
    <<u, i>> \in DOMAIN chunks /\ chunks[<<u, i>>] = "RECEIVED"

\* C11 (P5): after a crash and restart the init of a surviving session
\* returns exactly the indices recorded RECEIVED, and once the client has
\* submitted every index missing from that set (no index is missing and no
\* request is in flight) the session is COMPLETED.
C11_CrashRecovery ==
  /\ (resp.route = "init" /\ resp.code = 200 /\ resp.uploadId \in DOMAIN uploads) =>
       resp.uploadedChunks = ReceivedIndexes(chunks, resp.uploadId)
  /\ \A u \in DOMAIN uploads :
       (used.crashes > 0 /\ Quiescent /\ AllReceived(u)) =>
         uploads[u].status = "COMPLETED"

\* ------------------------------------------------------------------------
\* Failure and retry of a chunk
\* ------------------------------------------------------------------------

\* A client that sends one request at a time and only chunks it still has to
\* deliver (those not recorded RECEIVED), against a server whose chunk write
\* may fail and which may crash at any await; a failed chunk is sent again.
NextRetry ==
  \/ /\ used.requests < MaxChunkRequests
     /\ Quiescent
     /\ \E p \in Requests, u \in DOMAIN uploads :
          \E idx \in 0..(uploads[u].total_chunks - 1) :
            /\ chunks[<<u, idx>>] # "RECEIVED"
            /\ ChunkStart(p, u, idx, ChunkLength(uploads[u].total_size, idx), TRUE)
  \/ \E p \in Requests : ChunkFindUpload(p)
  \/ \E p \in Requests : ChunkFindChunk(p)
  \/ \E p \in Requests : ChunkReadFile(p)
  \/ \E p \in Requests : ChunkOpen(p)
  \/ \E p \in Requests : ChunkOpenW(p)
  \/ \E p \in Requests : ChunkWrite(p)
  \/ \E p \in Requests : ChunkWriteError(p)
  \/ \E p \in Requests : ChunkUnlink(p)
  \/ \E p \in Requests : ChunkMark(p)
  \/ \E p \in Requests : ChunkCount(p)
  \/ \E p \in Requests : FinalizeFindUpload(p)
  \/ \E p \in Requests : FinalizeProcessing(p)
  \/ \E p \in Requests : FinalizeHash(p)
  \/ \E p \in Requests, peekOk \in BOOLEAN : FinalizePeek(p, peekOk)
  \/ \E p \in Requests : FinalizeComplete(p)
  \/ used.crashes < MaxCrashes /\ Crash

SpecRetry == InitUpload /\ [][NextRetry]_vars

\* C12: a chunk request that fails because its write fails (500) or because
\* the server crashes between the write and the RECEIVED update leaves its
\* chunk document PENDING; a later request for a PENDING chunk is accepted,
\* and when it succeeds it has written its payload and its document is
\* RECEIVED; a session completed this way carries the digest of the whole file.
C12_FailedChunkRetryable ==
  /\ [][\A p \in Requests :
          LET k == <<local[p].uploadId, local[p].chunkIdx>> IN
          /\ ( /\ pc[p] \in {"c_write", "c_unlink", "c_mark"}
               /\ pc'[p] = "idle"
               /\ (resp'.code = 500 \/ used'.crashes # used.crashes) ) =>
               chunks' = chunks /\ chunks'[k] = "PENDING"
          /\ ( /\ pc[p] = "c_findChunk" /\ chunks[k] = "PENDING"
               /\ pc'[p] # pc[p] /\ used'.crashes = used.crashes ) =>
               pc'[p] = "c_readFile"
          /\ ( /\ local[p].kind = "chunk" /\ pc[p] # "idle" /\ pc'[p] = "idle"
               /\ resp'.code = 200 /\ resp'.message = NULL ) =>
               local[p].wrote /\ chunks'[k] = "RECEIVED"]_vars
  /\ [](\A u \in DOMAIN uploads :
          uploads[u].status = "COMPLETED" =>
            /\ files[u] = Content(uploads[u].total_size)
            /\ uploads[u].final_hash = calculateFileHash(Content(uploads[u].total_size)))

\* A session has completed with the right digest although two of the
\* client's requests failed, one of them through the crash: every chunk got
\* RECEIVED by a request of its own, so the failed ones were sent again.
C12_Witness ==
  \E u \in DOMAIN uploads :
    /\ uploads[u].status = "COMPLETED"
    /\ uploads[u].final_hash = calculateFileHash(Content(uploads[u].total_size))
    /\ used.crashes = 1
    /\ used.requests = uploads[u].total_chunks + 2

\* ------------------------------------------------------------------------
\* Validation of chunk requests
\* ------------------------------------------------------------------------

\* Any client against a created session on a server without crash or cleanup
\* run: chunk requests with any index and any payload length, overlapping in
\* time, with disk failures in the chunk write and in the digest computation.
NextChunks ==
  \/ /\ used.requests < MaxChunkRequests
     /\ \E p \in Requests, u \in UploadIds, idx \in ChunkIndexes,
           len \in PayloadLengths, ok \in BOOLEAN :
          ChunkStart(p, u, idx, len, ok)
  \/ \E p \in Requests : ChunkFindUpload(p)
  \/ \E p \in Requests : ChunkFindChunk(p)
  \/ \E p \in Requests : ChunkReadFile(p)
  \/ \E p \in Requests : ChunkOpen(p)
  \/ \E p \in Requests : ChunkOpenW(p)
  \/ \E p \in Requests : ChunkWrite(p)
  \/ \E p \in Requests : ChunkWriteError(p)
  \/ \E p \in Requests : ChunkUnlink(p)
  \/ \E p \in Requests : ChunkMark(p)
  \/ \E p \in Requests : ChunkCount(p)
  \/ \E p \in Requests : FinalizeFindUpload(p)
  \/ \E p \in Requests : FinalizeProcessing(p)
  \/ \E p \in Requests : FinalizeHash(p)
  \/ \E p \in Requests : FinalizeHashError(p)
  \/ \E p \in Requests, peekOk \in BOOLEAN : FinalizePeek(p, peekOk)
  \/ \E p \in Requests : FinalizeComplete(p)
  \/ \E p \in Requests : FinalizeFailed(p)

SpecChunks == InitUpload /\ [][NextChunks]_vars

\* The positions of the handler inside finalizeUpload.
Finalizing == {"f_findUpload", "f_processing", "f_hash", "f_peek", "f_complete", "f_failed"}

\* The request of slot p carries an index of its session and a payload whose
\* length is not the length of that chunk.
WrongLength(p) ==
  LET u == local[p].uploadId
      idx == local[p].chunkIdx
  IN /\ local[p].kind = "chunk"
     /\ u \in DOMAIN uploads
     /\ idx \in 0..(uploads[u].total_chunks - 1)
     /\ local[p].len # ChunkLength(uploads[u].total_size, idx)

\* C13: a chunk request whose payload length differs from the expected
\* length of its index is rejected: no step of it changes the target files
\* or a chunk document, it never enters finalizeUpload and it is not
\* answered 200.
C13_LengthCheck ==
  [][\A p \in Requests :
       (WrongLength(p) /\ pc'[p] # pc[p]) =>
         /\ files' = files
         /\ chunks' = chunks
         /\ pc'[p] \notin Finalizing
         /\ pc'[p] = "idle" => resp'.code # 200]_vars

\* C14 (I5): a step of a chunk request that changes a target file belongs to
\* a request whose index i is one of its session's, and changes only bytes
\* of [i*CHUNK_SIZE, min((i+1)*CHUNK_SIZE, total_size)); the write of the
\* last chunk leaves the file exactly total_size bytes long, and no target
\* file is ever longer than the total_size of its session.
C14_WritesWithinRange ==
  /\ [][\A p \in Requests :
          (local[p].kind = "chunk" /\ pc'[p] # pc[p] /\ files' # files) =>
            LET u == local[p].uploadId
                idx == local[p].chunkIdx
            IN /\ u \in DOMAIN uploads
               /\ idx \in 0..(uploads[u].total_chunks - 1)
               /\ \A pos \in Positions :
                    (pos \notin ChunkRange(idx) \/ pos > uploads[u].total_size) =>
                      ByteAt(files', u, pos) = ByteAt(files, u, pos)
               /\ (pc[p] = "c_write" /\ idx = uploads[u].total_chunks - 1) =>
                    Len(files'[u]) = uploads[u].total_size]_vars
  /\ [](\A u \in DOMAIN files \cap DOMAIN uploads :
          Len(files[u]) <= uploads[u].total_size)

\* Any client that sends one request at a time against a created session:
\* the steps of NextChunks, a request starting only when none is in flight.
NextSerial ==
  \/ /\ used.requests < MaxChunkRequests
     /\ Quiescent
     /\ \E p \in Requests, u \in UploadIds, idx \in ChunkIndexes,
           len \in PayloadLengths, ok \in BOOLEAN :
          ChunkStart(p, u, idx, len, ok)
  \/ \E p \in Requests : ChunkFindUpload(p)
  \/ \E p \in Requests : ChunkFindChunk(p)
  \/ \E p \in Requests : ChunkReadFile(p)
  \/ \E p \in Requests : ChunkOpen(p)
  \/ \E p \in Requests : ChunkOpenW(p)
  \/ \E p \in Requests : ChunkWrite(p)
  \/ \E p \in Requests : ChunkWriteError(p)
  \/ \E p \in Requests : ChunkUnlink(p)
  \/ \E p \in Requests : ChunkMark(p)
  \/ \E p \in Requests : ChunkCount(p)
  \/ \E p \in Requests : FinalizeFindUpload(p)
  \/ \E p \in Requests : FinalizeProcessing(p)
  \/ \E p \in Requests : FinalizeHash(p)
  \/ \E p \in Requests : FinalizeHashError(p)
  \/ \E p \in Requests, peekOk \in BOOLEAN : FinalizePeek(p, peekOk)
  \/ \E p \in Requests : FinalizeComplete(p)
  \/ \E p \in Requests : FinalizeFailed(p)

SpecSerial == InitUpload /\ [][NextSerial]_vars

\* C15: a chunk request on a session that is not UPLOADING (with one request
\* at a time the status it loads is the status at each of its steps outside
\* finalizeUpload) answers success and discards its payload: none of its
\* steps changes a target file or a chunk document or enters finalizeUpload,
\* whatever index it carries.
C15_NotUploadingDiscards ==
  [][\A p \in Requests :
       LET u == local[p].uploadId IN
       ( /\ local[p].kind = "chunk"
         /\ pc[p] \notin Finalizing
         /\ pc'[p] # pc[p]
         /\ u \in DOMAIN uploads
         /\ uploads[u].status # "UPLOADING" ) =>
         /\ files' = files
         /\ chunks' = chunks
         /\ pc'[p] \notin Finalizing
         /\ pc'[p] = "idle" => resp'.code = 200]_vars

\* C16: a chunk request that finds its chunk document RECEIVED ends there: the
\* step changes no target file, no chunk document and no session, it removes
\* the request's scratch file and nothing else from the scratch directory,
\* and (the scratch file being there to unlink) it answers 200 "Chunk already
\* uploaded".
C16_ReceivedChunkNoOp ==
  [][\A p \in Requests :
       LET k == <<local[p].uploadId, local[p].chunkIdx>> IN
       ( /\ pc[p] = "c_findChunk"
         /\ k \in DOMAIN chunks /\ chunks[k] = "RECEIVED"
         /\ pc'[p] # pc[p]
         /\ used'.crashes = used.crashes ) =>
         /\ pc'[p] = "idle"
         /\ files' = files /\ chunks' = chunks /\ uploads' = uploads
         /\ temp' = temp \ {p}
         /\ p \in temp =>
              /\ resp'.route = "chunk" /\ resp'.code = 200
              /\ resp'.message = "Chunk already uploaded"
              /\ resp'.isComplete = FALSE]_vars

\* A duplicate of a RECEIVED chunk has just been answered.
C16_Witness ==
  /\ resp.route = "chunk" /\ resp.code = 200
  /\ resp.message = "Chunk already uploaded"
  /\ ReceivedIndexes(chunks, resp.uploadId) # {}

\* C17: a chunk request or a status request whose id has no session document
\* ends at the session lookup: the step changes no session, no chunk document
\* and no target file, removes the scratch file of the request and no other,
\* and answers 404 "Upload not found" (for a chunk request: the scratch file
\* being there to unlink).
C17_UnknownIdNotFound ==
  [][\A p \in Requests :
       ( /\ pc[p] \in {"c_findUpload", "s_findUpload"}
         /\ local[p].uploadId \notin DOMAIN uploads
         /\ pc'[p] # pc[p]
         /\ used'.crashes = used.crashes ) =>
         /\ pc'[p] = "idle"
         /\ uploads' = uploads /\ chunks' = chunks /\ files' = files
         /\ temp' = temp \ {p}
         /\ (pc[p] = "s_findUpload" \/ p \in temp) =>
              /\ resp'.route = local[p].kind /\ resp'.uploadId = local[p].uploadId
              /\ resp'.code = 404 /\ resp'.message = "Upload not found"]_vars

\* A chunk request for an unknown id has just been answered 404, its scratch
\* file is gone and nothing has been created.
C17_Witness ==
  /\ resp.route = "chunk" /\ resp.code = 404
  /\ resp.uploadId \notin DOMAIN uploads
  /\ resp.uploadId \notin DOMAIN files
  /\ temp = {}

\* ------------------------------------------------------------------------
\* Validation and concurrency of init
\* ------------------------------------------------------------------------

\* C18: an init is answered 400 when a field is missing or fileSize <= 0, and
\* a rejected init creates nothing: no session is ever created with a
\* total_size that is zero or negative, and a step that answers an init with
\* 400 changes neither collection.
C18_InitRejectsBadSize ==
  /\ [](\A u \in DOMAIN uploads : uploads[u].total_size > 0)
  /\ [][(resp'.route = "init" /\ resp'.code = 400) =>
          uploads' = uploads /\ chunks' = chunks]_vars

\* Clients that only initialize, on an empty store and a healthy server: init
\* requests for the same id, with a field missing or not and with a fileSize
\* that is missing (0) or a real size, overlapping in time.
NextInit ==
  \/ /\ used.requests < MaxInitRequests
     /\ \E p \in Requests, u \in UploadIds, ok \in BOOLEAN, s \in FileSizes \cap Nat :
          InitStart(p, u, ok, s)
  \/ \E p \in Requests : InitFindUpload(p)
  \/ \E p \in Requests : InitFindChunks(p)
  \/ \E p \in Requests : InitInsertUpload(p)
  \/ \E p \in Requests : InitInsertChunks(p)

SpecInit == Init /\ [][NextInit]_vars

\* C19: init calls for the same unknown id that overlap in time all succeed
\* (an init that passed validation is never answered with an error), and once
\* they have returned the session has exactly its total_chunks chunk
\* documents, all PENDING.
C19_ConcurrentInit ==
  /\ resp.route = "init" => resp.code \in {200, 400}
  /\ Quiescent =>
       \A u \in DOMAIN uploads :
         /\ ChunkDocs(chunks, u) = 0..(uploads[u].total_chunks - 1)
         /\ ReceivedIndexes(chunks, u) = {}

\* ------------------------------------------------------------------------
\* cleanupOldUploads
\* ------------------------------------------------------------------------

\* C20: a session document that disappears is UPLOADING or FAILED at the
\* moment of its deletion; no step of the cleanup run changes or removes the
\* document of a session that is COMPLETED or PROCESSING, however old it is,
\* and a run does not pick such a session for the removal of its file.
C20_CleanupSparesCompleted ==
  [][/\ \A u \in DOMAIN uploads \ DOMAIN uploads' :
          uploads[u].status \in {"UPLOADING", "FAILED"}
     /\ jpc' # jpc =>
          \A u \in DOMAIN uploads :
            uploads[u].status \in {"COMPLETED", "PROCESSING"} =>
              /\ u \in DOMAIN uploads' /\ uploads'[u] = uploads[u]
              /\ jpc = "idle" => u \notin oldUploads']_vars

\* The deleteMany of a cleanup run has been executed while a COMPLETED session
\* older than 24 h is in the store.
C20_Witness ==
  /\ jpc = "j_temp"
  /\ \E u \in DOMAIN uploads : uploads[u].status = "COMPLETED" /\ uploads[u].expired

\* C21: the deleteMany of a cleanup run removes, with each session document,
\* every chunk document of that upload, and the target file of the session is
\* gone by then.
C21_CleanupSweepsSession ==
  [][\A u \in DOMAIN uploads \ DOMAIN uploads' :
       /\ u \notin DOMAIN files'
       /\ ChunkDocs(chunks', u) = {}]_vars

\* A well-behaved client uploading to a created session while time passes,
\* the cleanup timer fires and the server may crash: the chunk requests of
\* NextUpload interleaved with the steps of cleanupOldUploads.
NextCleanup ==
  \/ NextUpload
  \/ \E u \in UploadIds : Expire(u)
  \/ used.cleanups < MaxCleanups /\ CleanupFind
  \/ \E u \in UploadIds : CleanupUnlink(u)
  \/ CleanupDelete
  \/ \E stale \in SUBSET Requests : CleanupTemp(stale)
  \/ used.crashes < MaxCrashes /\ Crash

SpecCleanup == InitUpload /\ [][NextCleanup]_vars

\* C22: the cleanup run removes a target file only of a session it deletes:
\* once the deleteMany of a run has been executed, a session that is still in
\* the store as COMPLETED has its target file (the digest of a COMPLETED
\* session was read from that file, and only the cleanup run removes files).
C22_CleanupKeepsSurvivorsFile ==
  \A u \in DOMAIN uploads :
    (jpc = "j_temp" /\ uploads[u].status = "COMPLETED") => u \in DOMAIN files

\* ------------------------------------------------------------------------
\* Failures during finalization
\* ------------------------------------------------------------------------

\* C23: a failure of the digest computation moves the session from
\* PROCESSING to FAILED: the FAILED write of the finalizing request applies
\* only while the status is PROCESSING, so a session becomes FAILED from no
\* other status.
C23_FailedOnlyFromProcessing ==
  [][\A u \in DOMAIN uploads \cap DOMAIN uploads' :
       (uploads'[u].status = "FAILED" /\ uploads[u].status # "FAILED") =>
         uploads[u].status = "PROCESSING"]_vars

\* C24: a failure of peekZipContents never fails the upload: a request that
\* has computed the digest goes from the peek to the COMPLETED write whether
\* the peek succeeded or threw, without touching the session, and that write
\* sets COMPLETED and the digest it computed.
C24_PeekFailureSwallowed ==
  [][\A p \in Requests :
       LET u == local[p].uploadId IN
       (pc'[p] # pc[p] /\ used'.crashes = used.crashes) =>
         /\ pc[p] = "f_peek" =>
              /\ pc'[p] = "f_complete"
              /\ local'[p].hash = local[p].hash
              /\ uploads' = uploads
         /\ (pc[p] = "f_complete" /\ u \in DOMAIN uploads) =>
              /\ uploads'[u].status = "COMPLETED"
              /\ uploads'[u].final_hash = local[p].hash
              /\ local[p].hash # NoHash]_vars

\* The peek has thrown (zipContents is still empty) and the request is about
\* to write COMPLETED with the digest it computed.
C24_Witness ==
  \E p \in Requests :
    /\ pc[p] = "f_complete"
    /\ local[p].zipContents = "none"
    /\ local[p].hash # NoHash
    /\ local[p].uploadId \in DOMAIN uploads
    /\ uploads[local[p].uploadId].status = "PROCESSING"

\* ------------------------------------------------------------------------
\* Scratch files
\* ------------------------------------------------------------------------

\* C25: a chunk request that has been answered (400, 404, duplicate, success
\* or 500) has left no scratch file: only the requests still in flight have
\* one.
C25_ScratchCleanup ==
  \A p \in Requests : pc[p] = "idle" => p \notin temp

\* A chunk request has just been answered 500 after its write failed, and
\* the scratch directory is empty.
C25_Witness ==
  /\ resp.route = "chunk" /\ resp.code = 500
  /\ resp.uploadId \in DOMAIN files
  /\ Quiescent
  /\ temp = {}

\* ------------------------------------------------------------------------
\* The browser uploader (frontend/src/App.jsx)
\* ------------------------------------------------------------------------
\* startUpload, processQueue, uploadChunk and checkCompletion are closures of
\* one render of the component: the `chunks` they read is the state as it was
\* when the button was pressed (client.closure), while setChunks updates the
\* state of later renders (client.chunks).  uploadStateRef.current is shared
\* by all of them.  The server is seen through its responses only: the init
\* answer (the uploadedChunks it lists, or an error) and the outcome of each
\* chunk request are inputs.

Min(a, b) == IF a <= b THEN a ELSE b

\* The ascending sequence of the members of the set s of naturals.
RECURSIVE Ascending(_)
Ascending(s) ==
  IF s = {} THEN <<>>
  ELSE LET m == CHOOSE x \in s : \A y \in s : x <= y
       IN <<m>> \o Ascending(s \ {m})

\* A call of uploadChunk(id, index, retryCount) of the startUpload call run,
\* awaiting its fetch or, delay seconds after a failure, the timer of its retry.
Sending(run, index, retryCount) ==
  [run |-> run, index |-> index, retry |-> retryCount, phase |-> "sending", delay |-> 0]
Waiting(run, index, retryCount, delay) ==
  [run |-> run, index |-> index, retry |-> retryCount, phase |-> "waiting", delay |-> delay]

\* App.jsx:234-241: allSuccess is computed over the `chunks` of the closure.
checkCompletion(c, run) ==
  IF \A i \in DOMAIN c.closure[run] : c.closure[run][i] = "success"
  THEN [c EXCEPT !.uploading = FALSE, !.saved = FALSE]
  ELSE c

\* App.jsx:152-164: chunks are shifted from the queue and uploadChunk is
\* called for each while activeUploads < MAX_CONCURRENT; then the completion
\* is checked when nothing is active or queued.  Up to its first await
\* uploadChunk runs inside the loop: with shouldFail (App.jsx:175-180, the
\* chunks of failing) its first attempt fails there and the retry is scheduled.
processQueue(c, run, failing) ==
  LET k == Min(Max(MAX_CONCURRENT - c.activeUploads, 0), Len(c.queue))
      launched == {c.queue[j] : j \in 1..k}
      c1 == [c EXCEPT
               !.activeUploads = @ + k,
               !.queue = SubSeq(@, k + 1, Len(@)),
               !.failures = @ + Cardinality(launched \cap failing),
               !.flights = @ \cup {IF i \in failing THEN Waiting(run, i, 1, 1)
                                   ELSE Sending(run, i, 0) : i \in launched},
               !.chunks = [i \in DOMAIN @ |->
                             IF i \notin launched THEN @[i]
                             ELSE IF i \in failing THEN "error" ELSE "uploading"]]
  IN IF c1.activeUploads = 0 /\ c1.queue = <<>> THEN checkCompletion(c1, run) ELSE c1

\* 2^n, for Math.pow(2, retryCount).
RECURSIVE Pow2(_)
Pow2(n) == IF n = 0 THEN 1 ELSE 2 * Pow2(n - 1)

\* The catch block with the test retryCount <= MAX_RETRIES: one retry more.
uploadChunkCatch_ExtraRetry(c, f, failing) ==
  IF f.retry <= MAX_RETRIES
  THEN [c EXCEPT !.flights = (@ \ {f}) \cup {Waiting(f.run, f.index, f.retry + 1, Pow2(f.retry))},
                 !.chunks[f.index] = "error",
                 !.failures = @ + 1]
  ELSE processQueue([c EXCEPT !.flights = @ \ {f},
                              !.chunks[f.index] = "failed",
                              !.activeUploads = @ - 1,
                              !.failures = @ + 1],
                    f.run, failing)

\* App.jsx:205-223, the catch block of uploadChunk for the call f: a retry is
\* scheduled after 2^retryCount seconds while retryCount < MAX_RETRIES;
\* otherwise the chunk is 'failed', the slot is given back and the queue goes on.
uploadChunkCatch(c, f, failing) ==
  IF f.retry < MAX_RETRIES
  THEN [c EXCEPT !.flights = (@ \ {f}) \cup {Waiting(f.run, f.index, f.retry + 1, Pow2(f.retry))},
                 !.chunks[f.index] = "error",
                 !.failures = @ + 1]
  ELSE processQueue([c EXCEPT !.flights = @ \ {f},
                              !.chunks[f.index] = "failed",
                              !.activeUploads = @ - 1,
                              !.failures = @ + 1],
                    f.run, failing)

\* App.jsx:90-118, 297-298: the button is pressed (it is enabled while
\* `uploading` is false): the upload is saved in localStorage and the init
\* request is sent.
startUpload ==
  /\ ~client.uploading
  /\ client.clicks < MaxClicks
  /\ LET run == client.clicks + 1 IN
     client' = [client EXCEPT
                  !.clicks = run,
                  !.saved = TRUE,
                  !.inits = @ \cup {run},
                  !.closure = [r \in DOMAIN @ \cup {run} |->
                                 IF r = run THEN client.chunks ELSE @[r]]]
  /\ UNCHANGED serverVars

\* App.jsx:119-145: the init response lists uploadedChunks: uploadStateRef is
\* replaced, the chunk states are reset, uploading is set, the chunks not
\* listed are queued and processQueue is called.
startUploadResponse(run, uploadedChunks, failing) ==
  /\ run \in client.inits
  /\ LET pendingChunks == Ascending(DOMAIN client.closure[run] \ uploadedChunks)
         c == [client EXCEPT
                 !.inits = @ \ {run},
                 !.activeUploads = 0,
                 !.queue = pendingChunks,
                 !.chunks = [i \in DOMAIN @ |->
                               IF i \in uploadedChunks THEN "success" ELSE "pending"],
                 !.uploading = TRUE]
     IN client' = processQueue(c, run, failing)
  /\ UNCHANGED serverVars

\* App.jsx:119, 146-149: the fetch rejects, or the answer is an error without
\* uploadedChunks, whose .length throws: the catch block resets uploading.
startUploadError(run) ==
  /\ run \in client.inits
  /\ client' = [client EXCEPT !.inits = @ \ {run}, !.uploading = FALSE]
  /\ UNCHANGED serverVars

\* App.jsx:188-204, 205-223: the fetch of the call f settles.  ok: the chunk is
\* 'success', the slot is given back and processQueue is called; otherwise
\* (the fetch rejects or the response is not ok) the catch block runs.
uploadChunkResponse(f, ok, failing) ==
  /\ f \in client.flights
  /\ f.phase = "sending"
  /\ client' = IF ok
               THEN processQueue([client EXCEPT !.flights = @ \ {f},
                                               !.chunks[f.index] = "success",
                                               !.activeUploads = @ - 1],
                                 f.run, failing)
               ELSE uploadChunkCatch(client, f, failing)
  /\ UNCHANGED serverVars

\* App.jsx:213-215, 166-186: the timer of the call f fires and uploadChunk runs
\* again with retryCount + 1: the chunk is 'uploading' and the request is
\* sent, unless shouldFail throws before it, which the catch block handles.
uploadChunkRetry(f, shouldFail, failing) ==
  /\ f \in client.flights
  /\ f.phase = "waiting"
  /\ client' = IF shouldFail
               THEN uploadChunkCatch(client, f, failing)
               ELSE [client EXCEPT !.flights = (@ \ {f}) \cup {Sending(f.run, f.index, f.retry)},
                                   !.chunks[f.index] = "uploading"]
  /\ UNCHANGED serverVars

Runs == 1..MaxClicks

\* The uploadedChunks an init answer may list: nothing, the first chunk, all.
ServerProgress == {{}, {0}, ClientIndexes}

\* The chunks still queued: those a call of processQueue may start.
Queued == {client.queue[j] : j \in 1..Len(client.queue)}

NextClient ==
  \/ startUpload
  \/ \E run \in Runs, uploadedChunks \in ServerProgress, failing \in SUBSET ClientIndexes :
       /\ startUploadResponse(run, uploadedChunks, failing)
       /\ client'.failures <= MaxFailures
  \/ \E run \in Runs : startUploadError(run)
  \/ \E f \in client.flights, ok \in BOOLEAN, failing \in SUBSET Queued :
       /\ uploadChunkResponse(f, ok, failing)
       /\ client'.failures <= MaxFailures
  \/ \E f \in client.flights, shouldFail \in BOOLEAN, failing \in SUBSET Queued :
       /\ uploadChunkRetry(f, shouldFail, failing)
       /\ client'.failures <= MaxFailures

\* The browser with a file selected, against a server of which nothing is
\* assumed but that it answers.
InitClient ==
  /\ uploads = <<>> /\ chunks = <<>> /\ files = <<>> /\ temp = {}
  /\ pc = [p \in Requests |-> "idle"]
  /\ local = [p \in Requests |-> NoLocal]
  /\ resp = NoResp
  /\ jpc = "idle" /\ oldUploads = {}
  /\ used = [requests |-> 0, crashes |-> 0, cleanups |-> 0]
  /\ client = SelectedFile

SpecClient == InitClient /\ [][NextClient]_vars

\* C26: at most MAX_CONCURRENT chunks are being sent or waiting for a retry,
\* 0 <= activeUploads <= MAX_CONCURRENT, and no chunk is in flight twice for
\* one run of startUpload or in flight while it is still queued.
C26_ConcurrencyControl ==
  /\ client.activeUploads \in 0..MAX_CONCURRENT
  /\ Cardinality(client.flights) <= MAX_CONCURRENT
  /\ \A f, g \in client.flights : (f.run = g.run /\ f.index = g.index) => f = g

\* Every chunk of the file has been uploaded successfully and the uploader
\* is at rest: nothing queued, nothing active, no request or timer pending.
UploadDone ==
  /\ \A i \in ClientIndexes : client.chunks[i] = "success"
  /\ client.queue = <<>> /\ client.activeUploads = 0
  /\ client.flights = {} /\ client.inits = {}
  /\ client.clicks > 0

\* C27: once every chunk has been uploaded successfully (queue empty, nothing
\* active, every chunk 'success') the upload is declared complete: uploading
\* is false and 'currentUpload' is removed from localStorage.  (The uploader
\* takes no step of its own from such a state, so what is to happen
\* eventually has to hold in it.)
C27_ClientCompletion ==
  UploadDone => (~client.uploading /\ ~client.saved)


\* C28: the status of a session leaves UPLOADING for PROCESSING only when
\* the number of RECEIVED chunk records equals total_chunks, i.e. every
\* index 0..total_chunks-1 is recorded RECEIVED.
C28_FinalizeOnlyWhenAllReceived ==
  [][\A u \in DOMAIN uploads :
       (/\ uploads[u].status = "UPLOADING"
        /\ u \in DOMAIN uploads'
        /\ uploads'[u].status = "PROCESSING")
       => (/\ AllReceived(u)
           /\ Cardinality(ReceivedIndexes(chunks, u)) = uploads[u].total_chunks)]_vars

\* C29: a cleanup run deletes the target file of a session before the
\* session record, so at every point of a run, and after a crash at any such
\* point, there is no target file whose session record has been deleted:
\* every target file on disk belongs to a session in the store.
C29_NoFileWithoutSession ==
  \A u \in DOMAIN files : u \in DOMAIN uploads

\* C30: retry with exponential backoff.  A chunk is attempted at most
\* 1 + MAX_RETRIES times: the retry count of a call is at most MAX_RETRIES,
\* and the call waiting for attempt k + 1 waits 2^k seconds.  A call that
\* leaves its state either goes on with the same chunk and keeps its slot
\* (the failure of attempt k < MAX_RETRIES schedules attempt k + 1 after 2^k
\* seconds and marks the chunk 'error'; a timer that fires sends attempt k),
\* or ends: by success, or by the failure of attempt MAX_RETRIES, which marks
\* the chunk 'failed'.  A call that ends gives back exactly one slot and the
\* queue goes on: the chunks processQueue then starts are the only other
\* change of activeUploads.
C30_RetryBackoff ==
  /\ [](\A f \in client.flights :
          /\ f.retry \in 0..MAX_RETRIES
          /\ f.phase = "waiting" => (f.retry >= 1 /\ f.delay = Pow2(f.retry - 1)))
  /\ [][\A f \in client.flights \ client'.flights :
          LET started == Len(client.queue) - Len(client'.queue) IN
          \/ /\ f.retry < MAX_RETRIES
             /\ Waiting(f.run, f.index, f.retry + 1, Pow2(f.retry)) \in client'.flights
             /\ client'.chunks[f.index] = "error"
             /\ client'.activeUploads = client.activeUploads
             /\ client'.queue = client.queue
          \/ /\ f.phase = "waiting"
             /\ Sending(f.run, f.index, f.retry) \in client'.flights
             /\ client'.activeUploads = client.activeUploads
             /\ client'.queue = client.queue
          \/ /\ f.phase = "sending" \/ f.retry = MAX_RETRIES
             /\ \A g \in client'.flights \ client.flights : g.index \in Queued
             /\ f.index \notin Queued =>
                  \/ client'.chunks[f.index] = "success" /\ f.phase = "sending"
                  \/ client'.chunks[f.index] = "failed" /\ f.retry = MAX_RETRIES
             /\ started = Min(Max(MAX_CONCURRENT - (client.activeUploads - 1), 0),
                              Len(client.queue))
             /\ client'.activeUploads = client.activeUploads - 1 + started]_vars

\* A chunk has failed for good: its fourth attempt failed, after three
\* retries, and the chunk was marked 'failed'.
C30_Witness ==
  /\ \E i \in ClientIndexes : client.chunks[i] = "failed"
  /\ client.failures = 1 + MAX_RETRIES

\* ------------------------------------------------------------------------
\* Digest, re-creation, progress
\* ------------------------------------------------------------------------

\* C31: in every state in which a session is COMPLETED, final_hash is the
\* digest of the current content of its target file: nothing writes the file
\* during or after the digest computation of the finalization.
C31_FinalHashOfCurrentContent ==
  \A u \in DOMAIN uploads :
    uploads[u].status = "COMPLETED" =>
      /\ u \in DOMAIN files
      /\ uploads[u].final_hash = calculateFileHash(files[u])

\* A client that comes back to an upload id after the cleanup run has swept
\* its session: the chunk requests of NextUpload, cleanup runs that start
\* while no request is in flight, and init requests for the same id and file
\* that start while no request and no cleanup run is in flight.
NextReuse ==
  \/ jpc = "idle" /\ NextUpload
  \/ /\ used.requests < MaxChunkRequests
     /\ Quiescent /\ jpc = "idle"
     /\ \E p \in Requests, u \in UploadIds : InitStart(p, u, TRUE, MaxFileSize)
  \/ \E p \in Requests : InitFindUpload(p)
  \/ \E p \in Requests : InitFindChunks(p)
  \/ \E p \in Requests : InitInsertUpload(p)
  \/ \E p \in Requests : InitInsertChunks(p)
  \/ \E u \in UploadIds : Expire(u)
  \/ used.cleanups < MaxCleanups /\ Quiescent /\ CleanupFind
  \/ \E u \in UploadIds : CleanupUnlink(u)
  \/ CleanupDelete
  \/ \E stale \in SUBSET Requests : CleanupTemp(stale)

SpecReuse == InitUpload /\ [][NextReuse]_vars

\* C32: no stale progress after a cleanup run has deleted a session: an
\* init that finds no session for its id succeeds, creates the session with
\* its total_chunks PENDING chunk records and answers uploadedChunks = [];
\* and no init reports chunks as uploaded of which the upload directory
\* holds nothing (the RECEIVED records of the deleted incarnation).
C32_FreshSessionAfterCleanup ==
  /\ [][\A p \in Requests :
          (pc[p] \in {"i_insertUpload", "i_insertChunks"} /\ pc'[p] = "idle") =>
            /\ resp'.code = 200
            /\ resp'.uploadedChunks = {}
            /\ \A i \in 0..(TotalChunks(local[p].fileSize) - 1) :
                 /\ <<local[p].uploadId, i>> \in DOMAIN chunks'
                 /\ chunks'[<<local[p].uploadId, i>>] = "PENDING"]_vars
  /\ []((resp.route = "init" /\ resp.code = 200 /\ resp.uploadedChunks # {}) =>
          resp.uploadId \in DOMAIN files)

\* ------------------------------------------------------------------------
\* Progress under retries
\* ------------------------------------------------------------------------

\* The client and server of NextRecovery under the scheduling of the event
\* loop: a handler whose await has completed is resumed, and the client goes
\* on sending chunk requests and init requests while it has any left to send.
SpecRecoveryFair == InitUpload /\ [][NextRecovery]_vars /\ WF_vars(NextRecovery)

\* C33: finalization is eventually attempted: a session whose chunks are all
\* RECEIVED while its status is UPLOADING eventually leaves UPLOADING under
\* client retries of chunk requests and init (stated for the states after
\* the restart in which the client still has a request to send).
C33_FinalizationAttempted ==
  \A u \in UploadIds :
    (/\ u \in DOMAIN uploads
     /\ uploads[u].status = "UPLOADING"
     /\ AllReceived(u)
     /\ used.crashes = MaxCrashes
     /\ used.requests < MaxChunkRequests)
    ~> (u \notin DOMAIN uploads \/ uploads[u].status # "UPLOADING")

\* The client and server of NextRecovery with time passing and the cleanup
\* timer firing, under the scheduling of the event loop.  (A cleanup run may
\* remove the target file under a finalization, whose catch block then runs.)
NextRestart ==
  \/ NextRecovery
  \/ \E p \in Requests : FinalizeFailed(p)
  \/ \E u \in UploadIds : Expire(u)
  \/ used.cleanups < MaxCleanups /\ CleanupFind
  \/ \E u \in UploadIds : CleanupUnlink(u)
  \/ CleanupDelete
  \/ \E stale \in SUBSET Requests : CleanupTemp(stale)

SpecRestartFair == InitUpload /\ [][NextRestart]_vars /\ WF_vars(NextRestart)

\* C34: no session stays PROCESSING forever: a session that is PROCESSING
\* eventually is COMPLETED or FAILED, also when the server crashed during the
\* finalization and the client keeps retrying (stated for the states after
\* the restart in which the client still has a request to send).
C34_ProcessingEnds ==
  \A u \in UploadIds :
    (/\ u \in DOMAIN uploads
     /\ uploads[u].status = "PROCESSING"
     /\ used.crashes = MaxCrashes
     /\ used.requests < MaxChunkRequests)
    ~> (u \in DOMAIN uploads /\ uploads[u].status \in {"COMPLETED", "FAILED"})

\* ------------------------------------------------------------------------
\* The chunk response and the chunk records
\* ------------------------------------------------------------------------

\* The response just sent is the success response of the chunk handler that
\* carries the counts (server.js:163-168).
CountsSent == resp.route = "chunk" /\ resp.code = 200 /\ resp.message = NULL

\* C35: a chunk response carries isComplete = true only if, when it is
\* sent, all total_chunks chunks of the session are RECEIVED and the status
\* of the session is no longer UPLOADING; isComplete = false is sent only
\* while a chunk record of the session is not RECEIVED; and receivedChunks
\* never exceeds totalChunks.
C35_IsCompleteResponse ==
  CountsSent =>
    LET u == resp.uploadId IN
    /\ resp.isComplete =>
         /\ u \in DOMAIN uploads
         /\ AllReceived(u)
         /\ uploads[u].status # "UPLOADING"
    /\ ~resp.isComplete => ChunkDocs(chunks, u) # ReceivedIndexes(chunks, u)
    /\ resp.receivedChunks <= resp.totalChunks

\* C36: chunk receipt is monotone: while the session record exists, no step
\* of an init, a chunk request, a finalization, a status query (or of
\* anything else) sets a RECEIVED chunk record back to PENDING or removes it,
\* and an init that finds the session reports exactly the RECEIVED indices,
\* so the set it reports only grows over the life of the session.
C36_ReceiptMonotone ==
  [][/\ \A k \in DOMAIN chunks :
          (/\ chunks[k] = "RECEIVED"
           /\ k[1] \in DOMAIN uploads /\ k[1] \in DOMAIN uploads')
          => (k \in DOMAIN chunks' /\ chunks'[k] = "RECEIVED")
     /\ \A p \in Requests :
          (pc[p] = "i_findChunks" /\ pc'[p] = "idle" /\ resp'.code = 200)
          => /\ resp'.uploadedChunks = ReceivedIndexes(chunks', local[p].uploadId)
             /\ ReceivedIndexes(chunks, local[p].uploadId) \subseteq resp'.uploadedChunks]_vars

\* After an init and a chunk request, a repeated init of the session has
\* just reported the chunks recorded RECEIVED, at least one.
C36_Witness ==
  /\ resp.route = "init" /\ resp.code = 200
  /\ resp.uploadId \in DOMAIN uploads
  /\ resp.uploadedChunks # {}
  /\ resp.uploadedChunks = ReceivedIndexes(chunks, resp.uploadId)
  /\ used.requests = MaxRequests
====
